---- MODULE Spec2Model ----
(***************************************************************************)
(* HTML form fields of pyrobot (pyrobot/forms/fields.py).                  *)
(*                                                                         *)
(* One field object is modelled: its class (kind), the option and label    *)
(* lists of an option field, the private attribute _value, and the outcome *)
(* of the last call made on it.  Init is the object after __init__; the    *)
(* actions are the calls a caller can make: the value setter, the value    *)
(* getter, append and remove.                                              *)
(*                                                                         *)
(* Python values are tagged pairs, so that values of different Python      *)
(* types are comparable and never equal: None, str (a sequence of          *)
(* characters), int, list, and a readable stream.  Indices are 0-based as  *)
(* in Python; a Python list l is a TLA+ sequence s with l[i] = s[i + 1].   *)
(***************************************************************************)
EXTENDS Integers, Sequences, FiniteSets, TLC

VARIABLES kind, parsed, options, labels, _value, last, opens

vars == <<kind, parsed, options, labels, _value, last, opens>>

---------------------------------------------------------------------------
(* Bounds of the model *)

MaxOptions == 2

MaxListLen == 2

MaxTextLen == 3

MaxOpens == 1

---------------------------------------------------------------------------
(* Python values *)

None == <<"none", 0>>

Unset == <<"unset", 0>>

PyStr(s) == <<"str", s>>

PyInt(i) == <<"int", i>>

PyList(s) == <<"list", s>>

Stream(path, serial) == <<"stream", path, serial>>

IsList(v) == v[1] = "list"

IsStr(v) == v[1] = "str"

HasRead(v) == v[1] = "stream"

Truthy(v) ==
    /\ v # None
    /\ v # PyStr(<<>>)
    /\ v # PyInt(0)
    /\ v # PyList(<<>>)

SeqsUpTo(S, n) == UNION {[1..k -> S] : k \in 0..n}

Contains(seq, v) == \E i \in 1..Len(seq) : seq[i] = v

IndexOf(seq, v) ==
    CHOOSE i \in 0..(Len(seq) - 1) :
        /\ seq[i + 1] = v
        /\ \A j \in 0..(i - 1) : seq[j + 1] # v

SliceFrom(seq, i) == SubSeq(seq, i + 1, Len(seq))

RemoveFirst(seq, v) ==
    LET i == IndexOf(seq, v)
    IN  SubSeq(seq, 1, i) \o SubSeq(seq, i + 2, Len(seq))

Sorted(seq) == SortSeq(seq, LAMBDA x, y : x[2] < y[2])

RECURSIVE rstrip(_, _)
rstrip(s, c) ==
    IF Len(s) > 0 /\ s[Len(s)] = c
    THEN rstrip(SubSeq(s, 1, Len(s) - 1), c)
    ELSE s

Ok(v) == [err |-> "", _value |-> v]

Raise(e, v) == [err |-> e, _value |-> v]

---------------------------------------------------------------------------
(* Classes *)

SingleKinds == {"Radio", "Select"}

MultiKinds == {"Checkbox", "MultiSelect"}

FlatKinds == {"Radio", "Checkbox"}

NestedKinds == {"Select", "MultiSelect"}

OptionKinds == SingleKinds \cup MultiKinds

BaseGetterKinds == {"Input", "Textarea", "FileInput"}

Kinds == OptionKinds \cup BaseGetterKinds

---------------------------------------------------------------------------
(* Parse nodes handed to the constructors *)

sa == PyStr(<<"a">>)

sb == PyStr(<<"b">>)

sx == PyStr(<<"x">>)

OptionValues == {sa, sb}

AttrPresence == {None, PyStr(<<>>)}

FlatOption == [value : OptionValues, next : {sa, None}, checked : AttrPresence]

NestedOption == [value : OptionValues, text : {sa, sx}, selected : AttrPresence]

TextChars == {"l", "CR", "LF"}

Texts == SeqsUpTo(TextChars, MaxTextLen)

Nodes(k) ==
    CASE k \in FlatKinds -> SeqsUpTo(FlatOption, MaxOptions)
      [] k \in NestedKinds -> SeqsUpTo(NestedOption, MaxOptions)
      [] k = "Textarea" -> [value : {None, PyStr(<<"v">>)}, text : Texts]
      [] OTHER -> [value : {None, PyStr(<<>>), PyStr(<<"v">>)}, text : {<<>>}]

---------------------------------------------------------------------------
(* MultiOptionField: option extraction and value resolution *)

FlatChecked(option) == option.checked # None

FlatOptionField_get_options(node) ==
    LET marked == SelectSeq(node, FlatChecked)
    IN  [options |-> [i \in 1..Len(node) |-> node[i].value],
         labels |-> [i \in 1..Len(node) |->
                        IF IsStr(node[i].next) THEN node[i].next ELSE None],
         initial |-> [i \in 1..Len(marked) |-> marked[i].value]]

NestedSelected(option) == option.selected # None

NestedOptionField_get_options(node) ==
    LET marked == SelectSeq(node, NestedSelected)
    IN  [options |-> [i \in 1..Len(node) |-> node[i].value],
         labels |-> [i \in 1..Len(node) |-> node[i].text],
         initial |-> [i \in 1..Len(marked) |-> marked[i].value]]

_get_options(k, node) ==
    IF k \in FlatKinds
    THEN FlatOptionField_get_options(node)
    ELSE NestedOptionField_get_options(node)

LabelGuard_unique(lbls, index) == ~Contains(SliceFrom(lbls, index + 1), lbls[index + 1])

LabelGuard(lbls, index) == ~Contains(SliceFrom(lbls, index), PyInt(index))

_value_to_index(self, value) ==
    IF Contains(self.options, value)
    THEN [err |-> "", index |-> IndexOf(self.options, value)]
    ELSE IF /\ Contains(self.labels, value)
            /\ LabelGuard(self.labels, IndexOf(self.labels, value))
    THEN [err |-> "", index |-> IndexOf(self.labels, value)]
    ELSE [err |-> "ValueError", index |-> -1]

---------------------------------------------------------------------------
(* Single selection: MultiOptionField, Radio, Select *)

MultiOptionField_get_value(self) ==
    IF self._value = None
    THEN [err |-> "", ret |-> PyStr(<<>>)]
    ELSE [err |-> "", ret |-> self.options[self._value[2] + 1]]

MultiOptionField_set_value(self, value) ==
    LET r == _value_to_index(self, value)
    IN  IF r.err # "" THEN Raise(r.err, self._value) ELSE Ok(PyInt(r.index))

MultiOptionField_set_initial(self, initial) ==
    IF Len(initial) = 0
    THEN Ok(None)
    ELSE MultiOptionField_set_value([self EXCEPT !._value = None], initial[1])

Select_set_initial_always_first(self, initial) ==
    MultiOptionField_set_value(self, self.options[1])

Select_set_initial(self, initial) ==
    LET r == MultiOptionField_set_initial(self, initial)
    IN  IF r.err # "" \/ Truthy(r._value)
        THEN r
        ELSE IF Len(self.options) = 0
        THEN Raise("IndexError", r._value)
        ELSE MultiOptionField_set_value([self EXCEPT !._value = r._value], self.options[1])

---------------------------------------------------------------------------
(* Multiple selection: MultiValueField, Checkbox, MultiSelect *)

MultiValueField_get_value(self) ==
    [err |-> "",
     ret |-> PyList([i \in 1..Len(self._value[2]) |->
                        self.options[self._value[2][i][2] + 1]])]

MultiValueField_set_value(self, value) ==
    LET items == IF IsList(value) THEN value[2] ELSE <<value>>
        res == [i \in 1..Len(items) |-> _value_to_index(self, items[i])]
    IN  IF \E i \in 1..Len(items) : res[i].err # ""
        THEN Raise("ValueError", self._value)
        ELSE Ok(PyList([i \in 1..Len(items) |-> PyInt(res[i].index)]))

MultiValueField_set_initial_first(self, initial) ==
    MultiValueField_set_value(self,
        PyList(IF Len(initial) = 0 THEN <<>> ELSE <<initial[1]>>))

MultiValueField_set_initial(self, initial) ==
    MultiValueField_set_value(self, PyList(initial))

MultiValueField_append_no_check(self, value) ==
    LET r == _value_to_index(self, value)
    IN  IF r.err # ""
        THEN Raise(r.err, self._value)
        ELSE Ok(PyList(Sorted(Append(self._value[2], PyInt(r.index)))))

MultiValueField_append(self, value) ==
    LET r == _value_to_index(self, value)
    IN  IF r.err # ""
        THEN Raise(r.err, self._value)
        ELSE IF Contains(self._value[2], PyInt(r.index))
        THEN Raise("ValueError", self._value)
        ELSE Ok(PyList(Sorted(Append(self._value[2], PyInt(r.index)))))

MultiValueField_remove_silent(self, value) ==
    LET r == _value_to_index(self, value)
    IN  IF r.err # ""
        THEN Raise(r.err, self._value)
        ELSE IF ~Contains(self._value[2], PyInt(r.index))
        THEN Ok(self._value)
        ELSE Ok(PyList(RemoveFirst(self._value[2], PyInt(r.index))))

MultiValueField_remove(self, value) ==
    LET r == _value_to_index(self, value)
    IN  IF r.err # ""
        THEN Raise(r.err, self._value)
        ELSE IF ~Contains(self._value[2], PyInt(r.index))
        THEN Raise("ValueError", self._value)
        ELSE Ok(PyList(RemoveFirst(self._value[2], PyInt(r.index))))

---------------------------------------------------------------------------
(* Scalar fields: BaseField, Input, Textarea, FileInput *)

BaseField_get_value(self) ==
    IF self._value = Unset
    THEN [err |-> "AttributeError", ret |-> None]
    ELSE [err |-> "", ret |-> IF Truthy(self._value) THEN self._value ELSE PyStr(<<>>)]

BaseField_set_value(self, value) == Ok(value)

open(path, exists, serial) ==
    IF exists
    THEN [err |-> "", stream |-> Stream(path[2], serial)]
    ELSE [err |-> "IOError", stream |-> None]

FileInput_set_value_any(self, value, opened) ==
    IF IsStr(value)
    THEN IF opened.err # "" THEN Raise(opened.err, self._value) ELSE Ok(opened.stream)
    ELSE Ok(value)

FileInput_set_value(self, value, opened) ==
    IF HasRead(value)
    THEN Ok(value)
    ELSE IF IsStr(value)
    THEN IF opened.err # "" THEN Raise(opened.err, self._value) ELSE Ok(opened.stream)
    ELSE Raise("ValueError", self._value)

Input_init(self, node) == BaseField_set_value(self, node.value)

RECURSIVE Textarea_strip_any(_)
Textarea_strip_any(text) ==
    IF Len(text) > 0 /\ text[Len(text)] \in {"CR", "LF"}
    THEN Textarea_strip_any(SubSeq(text, 1, Len(text) - 1))
    ELSE text

Textarea_strip(text) == rstrip(rstrip(text, "CR"), "LF")

Textarea_init(self, node) ==
    LET r == Input_init(self, node)
    IN  BaseField_set_value([self EXCEPT !._value = r._value], PyStr(Textarea_strip(node.text)))

---------------------------------------------------------------------------
(* Dispatch on the class, as Python's method resolution order does *)

_set_initial(k, self, initial) ==
    CASE k \in MultiKinds -> MultiValueField_set_initial(self, initial)
      [] k = "Select" -> Select_set_initial(self, initial)
      [] OTHER -> MultiOptionField_set_initial(self, initial)

_get_value(k, self) ==
    CASE k \in MultiKinds -> MultiValueField_get_value(self)
      [] k \in SingleKinds -> MultiOptionField_get_value(self)
      [] OTHER -> BaseField_get_value(self)

MultiOptionField_init(k, node) ==
    LET o == _get_options(k, node)
        self == [options |-> o.options, labels |-> o.labels, _value |-> Unset]
        r == _set_initial(k, self, o.initial)
    IN  [err |-> r.err, options |-> o.options, labels |-> o.labels, _value |-> r._value]

Construct(k, node) ==
    LET bare == [options |-> <<>>, labels |-> <<>>, _value |-> Unset]
    IN  CASE k \in FlatKinds /\ Len(node) = 0 ->
                [err |-> "IndexError", options |-> <<>>, labels |-> <<>>, _value |-> Unset]
          [] k \in OptionKinds -> MultiOptionField_init(k, node)
          [] k = "Input" ->
                [err |-> "", options |-> <<>>, labels |-> <<>>,
                 _value |-> Input_init(bare, node)._value]
          [] k = "Textarea" ->
                [err |-> "", options |-> <<>>, labels |-> <<>>,
                 _value |-> Textarea_init(bare, node)._value]
          [] OTHER -> [err |-> "", options |-> <<>>, labels |-> <<>>, _value |-> Unset]

---------------------------------------------------------------------------
(* The field object and the calls made on it *)

Self == [options |-> options, labels |-> labels, _value |-> _value]

OptionArgs == {sa, sb, sx, None}

ListArgs == {PyList(l) : l \in SeqsUpTo(OptionValues, MaxListLen)}

TextArgs == {None, PyStr(<<>>), PyStr(<<"v">>), PyInt(0), PyInt(1),
             PyList(<<>>), PyList(<<sa>>)}

FileArgs == {Stream(<<"f">>, 0), PyStr(<<"p">>), PyInt(1), None}

Called(op, arg, err, ret) == [op |-> op, arg |-> arg, err |-> err, ret |-> ret]

Init ==
    /\ kind \in Kinds
    /\ parsed \in Nodes(kind)
    /\ LET c == Construct(kind, parsed)
       IN  /\ c.err = ""
           /\ options = c.options
           /\ labels = c.labels
           /\ _value = c._value
    /\ last = Called("__init__", None, "", None)
    /\ opens = 0

SetOption(value) ==
    /\ kind \in OptionKinds
    /\ value \in OptionArgs \/ (kind \in MultiKinds /\ value \in ListArgs)
    /\ LET r == IF kind \in MultiKinds
                THEN MultiValueField_set_value(Self, value)
                ELSE MultiOptionField_set_value(Self, value)
       IN  /\ _value' = r._value
           /\ last' = Called("set_value", value, r.err, None)
    /\ UNCHANGED <<kind, parsed, options, labels, opens>>

SetText(value) ==
    /\ kind \in {"Input", "Textarea"}
    /\ LET r == BaseField_set_value(Self, value)
       IN  /\ _value' = r._value
           /\ last' = Called("set_value", value, r.err, None)
    /\ UNCHANGED <<kind, parsed, options, labels, opens>>

SetFile(value, exists) ==
    /\ kind = "FileInput"
    /\ (IsStr(value) /\ exists) => opens < MaxOpens
    /\ LET opened == IF IsStr(value) /\ ~HasRead(value)
                     THEN open(value, exists, opens + 1)
                     ELSE [err |-> "", stream |-> None]
           r == FileInput_set_value(Self, value, opened)
       IN  /\ _value' = r._value
           /\ last' = Called("set_value", value, r.err, None)
           /\ opens' = IF opened.stream # None THEN opens + 1 ELSE opens
    /\ UNCHANGED <<kind, parsed, options, labels>>

AppendOption(value) ==
    /\ kind \in MultiKinds
    /\ LET r == MultiValueField_append(Self, value)
       IN  /\ _value' = r._value
           /\ last' = Called("append", value, r.err, None)
    /\ UNCHANGED <<kind, parsed, options, labels, opens>>

RemoveOption(value) ==
    /\ kind \in MultiKinds
    /\ LET r == MultiValueField_remove(Self, value)
       IN  /\ _value' = r._value
           /\ last' = Called("remove", value, r.err, None)
    /\ UNCHANGED <<kind, parsed, options, labels, opens>>

GetValue ==
    /\ LET r == _get_value(kind, Self)
       IN  last' = Called("get_value", None, r.err, r.ret)
    /\ UNCHANGED <<kind, parsed, options, labels, _value, opens>>

Next ==
    \/ \E value \in OptionArgs \cup ListArgs : SetOption(value)
    \/ \E value \in TextArgs : SetText(value)
    \/ \E value \in FileArgs, exists \in BOOLEAN : SetFile(value, exists)
    \/ \E value \in OptionArgs : AppendOption(value)
    \/ \E value \in OptionArgs : RemoveOption(value)
    \/ GetValue

Spec == Init /\ [][Next]_vars

---------------------------------------------------------------------------
(* Vocabulary of the properties *)

Value == _get_value(kind, Self)

Selection == _value[2]

Constructed == last.op = "__init__"

Positions(seq, v) == {i \in 0..(Len(seq) - 1) : seq[i + 1] = v}

Least(S) == CHOOSE n \in S : \A m \in S : n <= m

Resolved(v) ==
    IF Positions(options, v) # {} THEN Least(Positions(options, v))
    ELSE IF Positions(labels, v) # {} THEN Least(Positions(labels, v))
    ELSE -1

Marked ==
    IF kind \in FlatKinds
    THEN {i \in 1..Len(parsed) : parsed[i].checked # None}
    ELSE {i \in 1..Len(parsed) : parsed[i].selected # None}

IsSubsequenceAt(short, long, skip) ==
    /\ Len(short) = Len(long) - 1
    /\ \A i \in 1..Len(short) : short[i] = IF i < skip THEN long[i] ELSE long[i + 1]

---------------------------------------------------------------------------
(* C1: the selected indices of a multi-selection field are pairwise        *)
(* distinct and strictly ascending in every reachable state.               *)
C1_SelectionStrictlyAscending ==
    kind \in MultiKinds =>
        \A i, j \in 1..Len(Selection) : i < j => Selection[i][2] < Selection[j][2]

(* C2: value resolution returns the smallest index whose option equals the *)
(* value, else the smallest index whose label equals it (the guard never   *)
(* rejects it), else fails; a resolved index lies within the options; and  *)
(* the single-selection setter stores exactly that index.                  *)
C2_ResolutionFirstOptionThenLabel ==
    kind \in OptionKinds =>
        /\ \A v \in OptionArgs :
              LET r == _value_to_index(Self, v)
              IN  /\ Resolved(v) >= 0 =>
                        /\ r.err = ""
                        /\ r.index = Resolved(v)
                        /\ r.index \in 0..(Len(options) - 1)
                  /\ Resolved(v) < 0 => r.err = "ValueError"
        /\ (kind \in SingleKinds /\ last.op = "set_value") =>
              IF Resolved(last.arg) >= 0
              THEN last.err = "" /\ _value = PyInt(Resolved(last.arg))
              ELSE last.err = "ValueError"

C2_Witness ==
    /\ kind = "Select"
    /\ options = <<sb, sa>>
    /\ labels = <<sa, sa>>
    /\ last.op = "set_value"
    /\ last.arg = sa
    /\ last.err = ""
    /\ _value = PyInt(1)

(* C3: append of a value whose index is already selected fails and leaves  *)
(* the selection as it was; a second append of the value just appended     *)
(* fails; after a successful append the selection is ordered by index.     *)
C3_AppendDuplicateRejected ==
    [][last'.op = "append" =>
          /\ (Resolved(last'.arg) >= 0
                /\ Contains(Selection, PyInt(Resolved(last'.arg)))) =>
                    /\ last'.err = "ValueError"
                    /\ _value' = _value
                    /\ Value' = Value
          /\ (last.op = "append" /\ last.err = "" /\ last'.arg = last.arg) =>
                    /\ last'.err = "ValueError"
                    /\ _value' = _value
          /\ last'.err = "" =>
                \A i, j \in 1..Len(_value'[2]) :
                    i < j => _value'[2][i][2] <= _value'[2][j][2]
      ]_vars

C3_Witness ==
    /\ kind = "Checkbox"
    /\ options = <<sa, sb>>
    /\ _value = PyList(<<PyInt(0), PyInt(1)>>)
    /\ last.op = "append"
    /\ last.arg = sb
    /\ last.err = "ValueError"

(* C4: remove fails and leaves the selection unchanged both when the value *)
(* matches no option and no label and when it resolves to an index that is *)
(* not selected.                                                           *)
C4_RemoveFailureKeepsSelection ==
    [][last'.op = "remove" =>
          /\ (Resolved(last'.arg) < 0
                \/ ~Contains(Selection, PyInt(Resolved(last'.arg)))) =>
                    /\ last'.err # ""
                    /\ _value' = _value
          /\ last'.err # "" => _value' = _value
      ]_vars

C4_Witness ==
    /\ kind \in MultiKinds
    /\ last.op = "remove"
    /\ last.err = "ValueError"
    /\ Resolved(last.arg) >= 0
    /\ ~Contains(Selection, PyInt(Resolved(last.arg)))
    /\ Len(Selection) > 0

(* C5: a Select built from at least one option has a selected index after  *)
(* construction; its value is the value of the first option marked         *)
(* selected, or of the first option when none is marked.                   *)
C5_SelectInitialValue ==
    (kind = "Select" /\ Constructed /\ Len(parsed) >= 1) =>
        /\ _value # None
        /\ _value[1] = "int"
        /\ Value.err = ""
        /\ Value.ret = IF Marked = {} THEN parsed[1].value ELSE parsed[Least(Marked)].value

C5_Witness ==
    /\ kind = "Select"
    /\ Constructed
    /\ Len(parsed) = 2
    /\ Marked = {2}
    /\ parsed[1].value # parsed[2].value
    /\ _value = PyInt(1)

(* C6: after construction a Radio's value is the value of the first        *)
(* checked sibling (the empty string if none), a Checkbox's value lists    *)
(* the values of all checked siblings in source order, and a MultiSelect   *)
(* with no option marked selected has the empty list as value.             *)
C6_FlatInitialValueByCardinality ==
    Constructed =>
        /\ kind = "Radio" =>
              /\ Value.err = ""
              /\ Value.ret = IF Marked = {} THEN PyStr(<<>>) ELSE parsed[Least(Marked)].value
        /\ kind = "Checkbox" =>
              /\ Value.err = ""
              /\ Value.ret[1] = "list"
              /\ Len(Value.ret[2]) = Cardinality(Marked)
              /\ \A i \in Marked :
                    Value.ret[2][Cardinality({j \in Marked : j <= i})] = parsed[i].value
        /\ (kind = "MultiSelect" /\ Marked = {}) =>
              /\ Value.err = ""
              /\ Value.ret = PyList(<<>>)

C6_Witness ==
    /\ kind = "Checkbox"
    /\ Constructed
    /\ Marked = {1, 2}
    /\ Value.ret = PyList(<<sb, sa>>)

(* C7: the base value getter (Input, Textarea, FileInput) never fails; it  *)
(* returns the empty string when the stored value is absent or empty-like  *)
(* and the stored value otherwise, also right after construction.          *)
C7_BaseGetterNeverFails ==
    kind \in BaseGetterKinds =>
        /\ Value.err = ""
        /\ Value.ret = IF _value \in {Unset, None, PyStr(<<>>), PyInt(0), PyList(<<>>)}
                       THEN PyStr(<<>>)
                       ELSE _value

(* C8: FileInput's setter stores a readable stream unchanged, stores a     *)
(* newly opened stream for a string path (or fails with the open error),   *)
(* and for any other value fails and keeps the stored value.               *)
C8_FileInputSetter ==
    [][(kind = "FileInput" /\ last'.op = "set_value") =>
          /\ HasRead(last'.arg) => (last'.err = "" /\ _value' = last'.arg)
          /\ IsStr(last'.arg) =>
                \/ /\ last'.err = ""
                   /\ opens' = opens + 1
                   /\ _value' = Stream(last'.arg[2], opens')
                \/ /\ last'.err = "IOError"
          /\ (~HasRead(last'.arg) /\ ~IsStr(last'.arg)) =>
                (last'.err = "ValueError" /\ _value' = _value)
      ]_vars

C8_Witness ==
    /\ kind = "FileInput"
    /\ last.op = "set_value"
    /\ last.arg = PyInt(1)
    /\ last.err = "ValueError"
    /\ HasRead(_value)

(* C9: a Textarea's value after construction is its text with every        *)
(* trailing carriage return removed first and every trailing line feed     *)
(* removed from that result; it never ends in a line feed but may end in   *)
(* a carriage return.                                                      *)
C9_TextareaTwoPassStrip ==
    (kind = "Textarea" /\ Constructed) =>
        LET text == parsed.text
            Cut(s, c) == CHOOSE n \in 0..Len(s) :
                            /\ \A i \in (n + 1)..Len(s) : s[i] = c
                            /\ n > 0 => s[n] # c
            pass1 == SubSeq(text, 1, Cut(text, "CR"))
            pass2 == SubSeq(pass1, 1, Cut(pass1, "LF"))
        IN  /\ Value.err = ""
            /\ Value.ret = PyStr(pass2)
            /\ pass2 # <<>> => pass2[Len(pass2)] # "LF"
            /\ text = <<"l", "CR", "LF">> => Value.ret = PyStr(<<"l", "CR">>)
            /\ text = <<"l", "LF", "CR">> => Value.ret = PyStr(<<"l">>)

C9_Witness ==
    /\ kind = "Textarea"
    /\ Constructed
    /\ parsed.text = <<"l", "CR", "LF">>
    /\ parsed.value # None
    /\ _value = PyStr(<<"l", "CR">>)

(* C10: a remove that returns without error leaves the index the value     *)
(* resolves to out of the selection and keeps every other selected index   *)
(* in its previous relative order.                                         *)
C10_RemoveDropsIndex ==
    [][(last'.op = "remove" /\ last'.err = "") =>
          /\ ~Contains(_value'[2], PyInt(Resolved(last'.arg)))
          /\ \E k \in 1..Len(Selection) : IsSubsequenceAt(_value'[2], Selection, k)
      ]_vars

====
